---------------------------- MODULE Spec2Model ----------------------------
(***************************************************************************)
(* The fraud / anomaly scoring pipeline of fraud_detection.py:             *)
(*   main: load_data -> apply_rules -> print_summary -> save_flagged_csv   *)
(*         -> generate_html_report.                                        *)
(* SpecConcurrent runs two invocations of apply_rules side by side;        *)
(* SpecAsk is the handler of POST /ask of data_chatbot.py.                 *)
(*                                                                         *)
(* Numeric policy of the model.  Currency amounts are whole dollars.  The  *)
(* stored loss_ratio column carries four decimals (generate_mock_data.py   *)
(* rounds it so), so it is held as an integer count of 1/RatioScale.       *)
(* Quantiles and the per-age-group mean + 3*std are exact rationals /      *)
(* exact comparisons (no floating-point rounding is modelled).             *)
(***************************************************************************)
EXTENDS Integers, Sequences, FiniteSets, TLC

VARIABLES
    df,           \* the table returned by load_data (sequence of policy rows)
    pc,           \* position of main()
    claims,       \* apply_rules' first result: the scored working copy
    flag_counts,  \* apply_rules' second result: rule -> number of rows in its mask
    thresholds,   \* apply_rules' third result
    summary,      \* what print_summary computed: flagged count and score_dist
    csv,          \* the rows save_flagged_csv wrote
    report,       \* what generate_html_report built: top30 rows and score_dist
    stdout,       \* the lines printed to the console so far
    calls,        \* the frames of the apply_rules invocations that run side by side
    ask           \* the POST /ask request the chatbot is handling

\* the variables of main()
mainVars == <<df, pc, claims, flag_counts, thresholds, summary, csv, report, stdout>>

vars == <<df, pc, claims, flag_counts, thresholds, summary, csv, report, stdout,
          calls, ask>>

---------------------------------------------------------------------------
(* Bounds of the enumerated inputs *)

\* longest table made of freely chosen rows
MaxRecs == 2
\* number of identical rows in the tables that have a populated age group
BulkSize == 10
\* freely chosen rows that follow the identical rows
MaxExtra == 2
\* longest table made of rows of a file the generator did not write
MaxFile == 2
\* longest table given to one of two invocations that run side by side
MaxCallRecs == 2

---------------------------------------------------------------------------
(* Static configuration: RULE_DEFINITIONS and the literals of apply_rules *)

RuleOrder ==
    << "extreme_loss_ratio", "statistical_outlier", "new_car_high_loss",
       "young_driver_extreme", "premium_loss_mismatch" >>

Rules == { RuleOrder[k] : k \in DOMAIN RuleOrder }

RULE_DEFINITIONS ==
    [ extreme_loss_ratio |->
        [ label |-> "Extreme Loss Ratio (>15x)", score |-> 3 ],
      statistical_outlier |->
        [ label |-> "Statistical Outlier (>mean+3*std by age group)", score |-> 2 ],
      new_car_high_loss |->
        [ label |-> "New Car (>=2022), High Loss (>$10k)", score |-> 2 ],
      young_driver_extreme |->
        [ label |-> "Young Driver (<25), Extreme Claim (>$15k)", score |-> 2 ],
      premium_loss_mismatch |->
        [ label |-> "Premium-Loss Mismatch (top 5% loss, bottom 25% premium)",
          score |-> 1 ] ]

\* claims["loss_ratio"] > 15
LossRatioLimit == 15
\* claims["car_model_year"] >= 2022
NewCarYear == 2022
\* claims["total_loss"] > 10_000
HighLoss == 10000
\* claims["age"] < 25
YoungAge == 25
\* claims["total_loss"] > 15_000
ExtremeLoss == 15000
\* the std multiplier in mean + 3 * std
StdFactor == 3
\* .round(4) of the stored loss_ratio: units of 1/10000
RatioScale == 10000
\* flagged.head(30)
TopN == 30

\* the separator the code appends after each rule name
Comma == ","

---------------------------------------------------------------------------
(* generate_mock_data.py: the stored loss_ratio column *)

\* np.round: num/den to the nearest integer, halves to the even neighbour
RoundHalfEven(num, den) ==
    LET q == num \div den
        r == num % den
    IN  IF 2 * r < den THEN q
        ELSE IF 2 * r > den THEN q + 1
        ELSE IF q % 2 = 0 THEN q ELSE q + 1

\* np.where(annual_premium > 0, total_loss / annual_premium, 0.0).round(4)
loss_ratio(annual_premium, total_loss) ==
    IF annual_premium > 0
    THEN RoundHalfEven(total_loss * RatioScale, annual_premium)
    ELSE 0

---------------------------------------------------------------------------
(* Helpers standing for the table library's primitives *)

\* A table or column held as a concrete sequence: the same value as f, with
\* its elements computed once instead of at every later lookup.
AsSeq(f) == SubSeq(f, 1, Len(f))

\* the members of the integer set S in increasing order
SetToSortedSeq(S) ==
    AsSeq([ k \in 1..Cardinality(S) |->
              CHOOSE i \in S : Cardinality({ j \in S : j <= i }) = k ])

\* Series.sum
SeqSum(s) ==
    LET f[k \in 0..Len(s)] == IF k = 0 THEN 0 ELSE f[k - 1] + s[k]
    IN  f[Len(s)]

\* the rows of s rearranged: the row whose place is k comes k-th
Permute(s, place) ==
    AsSeq([ k \in DOMAIN s |-> s[CHOOSE i \in DOMAIN s : place[i] = k] ])

\* the place of every value of s in ascending order
AscendingPlace(s) ==
    AsSeq([ i \in DOMAIN s |->
              Cardinality({ j \in DOMAIN s :
                              s[j] < s[i] \/ (s[j] = s[i] /\ j < i) }) + 1 ])

\* SortAscending as it would be if the values were taken in the order of the
\* rows
SortAscendingSkipped(s) == s

\* the values of s in ascending order (the order statistics quantile reads)
SortAscending(s) == Permute(s, AscendingPlace(s))

\* QuantileOfSorted as it would be if an empty series gave 0 instead of NaN
QuantileOfSortedEmptyAsZero(srt, qnum, qden) ==
    IF Len(srt) = 0 THEN [ nan |-> FALSE, num |-> 0, den |-> qden ]
    ELSE LET h   == (Len(srt) - 1) * qnum
             lo  == (h \div qden) + 1
             r   == h % qden
         IN  [ nan |-> FALSE,
               num |-> IF r = 0 THEN qden * srt[lo]
                       ELSE qden * srt[lo] + r * (srt[lo + 1] - srt[lo]),
               den |-> qden ]

\* Series.quantile(qnum/qden), linear interpolation between order statistics:
\* the value is num/den; NaN for an empty series
QuantileOfSorted(srt, qnum, qden) ==
    IF Len(srt) = 0 THEN [ nan |-> TRUE, num |-> 0, den |-> qden ]
    ELSE LET h   == (Len(srt) - 1) * qnum
             lo  == (h \div qden) + 1
             r   == h % qden
         IN  [ nan |-> FALSE,
               num |-> IF r = 0 THEN qden * srt[lo]
                       ELSE qden * srt[lo] + r * (srt[lo + 1] - srt[lo]),
               den |-> qden ]

\* Quantile as it would be with interpolation="higher": the order statistic
\* at or above the position, no interpolation
QuantileHigher(s, qnum, qden) ==
    IF Len(s) = 0 THEN [ nan |-> TRUE, num |-> 0, den |-> qden ]
    ELSE LET h == (Len(s) - 1) * qnum
         IN  [ nan |-> FALSE,
               num |-> qden * SortAscending(s)[((h + qden - 1) \div qden) + 1],
               den |-> qden ]

Quantile(s, qnum, qden) == QuantileOfSorted(SortAscending(s), qnum, qden)

\* x >= q for a quantile value q (every comparison with NaN is False)
GeQuantile(x, q) == ~q.nan /\ x * q.den >= q.num
\* x <= q for a quantile value q
LeQuantile(x, q) == ~q.nan /\ x * q.den <= q.num

---------------------------------------------------------------------------
(* apply_rules *)
\* ClaimSubset as it would be with total_loss >= 0: rows without a claim kept
ClaimSubsetNonNegative(d) ==
    [ k \in DOMAIN d |->
        [ index          |-> k,
          customer_id    |-> d[k].customer_id,
          gender         |-> d[k].gender,
          age            |-> d[k].age,
          car_model_year |-> d[k].car_model_year,
          annual_premium |-> d[k].annual_premium,
          total_loss     |-> d[k].total_loss,
          loss_ratio     |-> d[k].loss_ratio,
          risk_score     |-> 0,
          flags          |-> << >> ] ]

\* The rows of d at the positions keep, as the working copy with its two
\* tracking columns.  Each row keeps its index label, i.e. its position in d.
WorkingCopy(d, keep) ==
    AsSeq([ k \in DOMAIN keep |->
              [ index          |-> keep[k],
                customer_id    |-> d[keep[k]].customer_id,
                gender         |-> d[keep[k]].gender,
                age            |-> d[keep[k]].age,
                car_model_year |-> d[keep[k]].car_model_year,
                annual_premium |-> d[keep[k]].annual_premium,
                total_loss     |-> d[keep[k]].total_loss,
                loss_ratio     |-> d[keep[k]].loss_ratio,
                risk_score     |-> 0,
                flags          |-> << >> ] ])

\* claims = df[df["total_loss"] > 0].copy(); risk_score = 0; flags = ""
ClaimSubset(d) ==
    WorkingCopy(d, SetToSortedSeq({ i \in DOMAIN d : d[i].total_loss > 0 }))
\* Accumulate as it would be with "=" written for "+=": the last rule wins
AccumulateOverwrite(rows, mask, rule) ==
    AsSeq([ k \in DOMAIN rows |->
              IF k \in mask
              THEN [ rows[k] EXCEPT
                       !.risk_score = RULE_DEFINITIONS[rule].score,
                       !.flags = << rule, Comma >> ]
              ELSE rows[k] ])

\* claims.loc[mask, "risk_score"] += score; claims.loc[mask, "flags"] += rule + ","
\* (mask is the set of row positions where the rule's condition is True)
Accumulate(rows, mask, rule) ==
    AsSeq([ k \in DOMAIN rows |->
              IF k \in mask
              THEN [ rows[k] EXCEPT
                       !.risk_score = @ + RULE_DEFINITIONS[rule].score,
                       !.flags = @ \o << rule, Comma >> ]
              ELSE rows[k] ])
\* Mask1WithLimit as it would be with < written for >
Mask1WithLimitBelow(rows, limit) ==
    { k \in DOMAIN rows : rows[k].loss_ratio < limit * RatioScale }

\* Rule 1's mask, claims["loss_ratio"] > 15, with the literal as a parameter
Mask1WithLimit(rows, limit) ==
    { k \in DOMAIN rows : rows[k].loss_ratio > limit * RatioScale }
\* Mask1 as it would be with >= written for >
Mask1Inclusive(rows) ==
    { k \in DOMAIN rows : rows[k].loss_ratio >= LossRatioLimit * RatioScale }

\* Rule 1: mask = claims["loss_ratio"] > 15
Mask1(rows) == Mask1WithLimit(rows, LossRatioLimit)

\* pd.cut(age, bins=[0, 25, 35, 45, 55, 65, 200], labels=..., right=False)
AgeGroup(age) ==
    IF age < 0 THEN "NaN"
    ELSE IF age < 25 THEN "<25"
    ELSE IF age < 35 THEN "25-34"
    ELSE IF age < 45 THEN "35-44"
    ELSE IF age < 55 THEN "45-54"
    ELSE IF age < 65 THEN "55-64"
    ELSE IF age < 200 THEN "65+"
    ELSE "NaN"

\* The enumerated amounts are whole multiples of this many dollars; the group
\* statistics are summed in that unit (x > mean + 3*std is unchanged by a
\* common factor), which keeps the squares within 32-bit integers.
StatUnit == 10 * 10

\* the sums a group's mean and std are made of
SumsOf(loss) ==
    [ n     |-> Len(loss),
      sum   |-> SeqSum(loss),
      sumsq |-> SeqSum([ k \in DOMAIN loss |-> loss[k] * loss[k] ]) ]

\* the total_loss column of a group's rows
GroupLosses(member) ==
    AsSeq([ k \in DOMAIN member |-> member[k].total_loss \div StatUnit ])

\* claims.groupby("age_group", observed=True)["total_loss"].agg(["mean", "std"])
\* and threshold = mean + 3 * std.  A group's entry holds the exact sums the
\* mean and the sample standard deviation (ddof = 1, the library default) are
\* made of: mean = sum / n, std = sqrt((sumsq - sum^2 / n) / (n - 1)), NaN for n = 1.
GroupStats(rows) ==
    [ g \in { AgeGroup(rows[k].age) : k \in DOMAIN rows } \ { "NaN" } |->
        SumsOf(GroupLosses(SelectSeq(rows, LAMBDA r : AgeGroup(r.age) = g))) ]
\* group_stats["threshold"] of a group is NaN: the std of one row is NaN
\* (the library's std divides by n - 1)
ThresholdIsNaN(st) == st.n < 2

\* AboveThreshold as it would be if a NaN threshold were filled with 0
AboveThresholdNaNAsZero(total_loss, st) ==
    LET x == total_loss \div StatUnit
        d == st.n * x - st.sum
    IN  IF st.n < 2 THEN total_loss > 0
        ELSE /\ d > 0
             /\ d * d * (st.n - 1)
                  > StdFactor * StdFactor * st.n * (st.n * st.sumsq - st.sum * st.sum)

\* AboveThreshold as it would be with the population standard deviation
\* (std(ddof=0), divisor n)
AboveThresholdPopulation(total_loss, st) ==
    LET x == total_loss \div StatUnit
        d == st.n * x - st.sum
    IN  /\ d > 0
        /\ d * d > StdFactor * StdFactor * (st.n * st.sumsq - st.sum * st.sum)

\* total_loss > mean + 3 * std, decided exactly:
\*   x - sum/n > 3 * sqrt((sumsq - sum^2/n) / (n - 1))
\* A NaN threshold (n = 1) compares False.
AboveThreshold(total_loss, st) ==
    LET x == total_loss \div StatUnit
        d == st.n * x - st.sum
    IN  /\ st.n >= 2
        /\ d > 0
        /\ d * d * (st.n - 1)
             > StdFactor * StdFactor * st.n * (st.n * st.sumsq - st.sum * st.sum)

\* Rule 2: claims["outlier_threshold"] = claims["age_group"].map(threshold);
\* mask = claims["total_loss"] > claims["outlier_threshold"]
Mask2(rows, group_stats) ==
    { k \in DOMAIN rows :
        /\ AgeGroup(rows[k].age) \in DOMAIN group_stats
        /\ AboveThreshold(rows[k].total_loss, group_stats[AgeGroup(rows[k].age)]) }
\* Mask3 as it would be with >= written for > on the loss
Mask3InclusiveLoss(rows) ==
    { k \in DOMAIN rows :
        rows[k].car_model_year >= NewCarYear /\ rows[k].total_loss >= HighLoss }

\* Rule 3: mask = (car_model_year >= 2022) & (total_loss > 10_000)
Mask3(rows) ==
    { k \in DOMAIN rows :
        rows[k].car_model_year >= NewCarYear /\ rows[k].total_loss > HighLoss }
\* Mask4 as it would be with <= written for < on the age
Mask4InclusiveAge(rows) ==
    { k \in DOMAIN rows :
        rows[k].age <= YoungAge /\ rows[k].total_loss > ExtremeLoss }

\* Rule 4: mask = (age < 25) & (total_loss > 15_000)
Mask4(rows) ==
    { k \in DOMAIN rows :
        rows[k].age < YoungAge /\ rows[k].total_loss > ExtremeLoss }

\* loss_95 = claims["total_loss"].quantile(0.95)
Loss95(rows) ==
    Quantile(AsSeq([ k \in DOMAIN rows |-> rows[k].total_loss ]), 19, 20)

\* premium_25 = claims["annual_premium"].quantile(0.25)
Premium25(rows) ==
    Quantile(AsSeq([ k \in DOMAIN rows |-> rows[k].annual_premium ]), 1, 4)
\* Mask5 as it would be with > written for >= on the loss
Mask5StrictLoss(rows, loss_95, premium_25) ==
    { k \in DOMAIN rows :
        /\ ~loss_95.nan /\ rows[k].total_loss * loss_95.den > loss_95.num
        /\ LeQuantile(rows[k].annual_premium, premium_25) }

\* Rule 5: mask = (total_loss >= loss_95) & (annual_premium <= premium_25)
Mask5(rows, loss_95, premium_25) ==
    { k \in DOMAIN rows :
        /\ GeQuantile(rows[k].total_loss, loss_95)
        /\ LeQuantile(rows[k].annual_premium, premium_25) }
\* RStrip as it would be if the trailing separator were never cleaned
RStripNothing(s) == s

\* str.rstrip(","): drop every trailing separator
RStrip(s) ==
    LET last == { k \in DOMAIN s : s[k] # Comma }
    IN  IF last = {} THEN << >>
        ELSE SubSeq(s, 1, CHOOSE k \in last : \A j \in last : j <= k)

\* claims["flags"] = claims["flags"].str.rstrip(",")
CleanFlags(rows) ==
    AsSeq([ k \in DOMAIN rows |-> [ rows[k] EXCEPT !.flags = RStrip(@) ] ])

\* RuleBlock as it would be if the count were taken over the rows the rule
\* flags first, i.e. the masked rows no earlier rule had scored
RuleBlockCountFirstFlag(st, mask, rule) ==
    [ st EXCEPT !.claims = Accumulate(@, mask, rule),
                !.flag_counts =
                   @ @@ (rule :> Cardinality({ k \in mask :
                                                st.claims[k].risk_score = 0 })) ]

\* One rule block: the rule's score and name go to the masked rows and
\* flag_counts[rule] = int(mask.sum()).  st holds the function's locals.
RuleBlock(st, mask, rule) ==
    [ st EXCEPT !.claims = Accumulate(@, mask, rule),
                !.flag_counts = @ @@ (rule :> Cardinality(mask)) ]

\* a cutoff that is not computed yet
NoQuantile == [ nan |-> TRUE, num |-> 0, den |-> 1 ]

\* the locals before the first rule: claims, and flag_counts = {}
Start(d) ==
    [ claims      |-> ClaimSubset(d),
      flag_counts |-> << >>,
      group_stats |-> << >>,
      loss_95     |-> NoQuantile,
      premium_25  |-> NoQuantile ]

Rule1(st) == RuleBlock(st, Mask1(st.claims), "extreme_loss_ratio")

Rule2With(st, group_stats) ==
    [ RuleBlock(st, Mask2(st.claims, group_stats), "statistical_outlier")
        EXCEPT !.group_stats = group_stats ]

Rule2(st) == Rule2With(st, GroupStats(st.claims))

\* Rule3 as it would be without the line that adds the score
Rule3Unscored(st) ==
    [ st EXCEPT
        !.claims = AsSeq([ k \in DOMAIN st.claims |->
                     IF k \in Mask3(st.claims)
                     THEN [ st.claims[k] EXCEPT
                              !.flags = @ \o << "new_car_high_loss", Comma >> ]
                     ELSE st.claims[k] ]),
        !.flag_counts = @ @@ ("new_car_high_loss" :> Cardinality(Mask3(st.claims))) ]

Rule3(st) == RuleBlock(st, Mask3(st.claims), "new_car_high_loss")

\* Rule4 as it would be if its two accumulating lines were run twice
Rule4Twice(st) ==
    RuleBlock(RuleBlock(st, Mask4(st.claims), "young_driver_extreme"),
              Mask4(st.claims), "young_driver_extreme")

Rule4(st) == RuleBlock(st, Mask4(st.claims), "young_driver_extreme")

\* Rule5With as it would be if flag_counts[rule] were left at 0
Rule5WithUncounted(st, loss_95, premium_25) ==
    [ st EXCEPT
        !.claims = Accumulate(@, Mask5(st.claims, loss_95, premium_25),
                              "premium_loss_mismatch"),
        !.flag_counts = @ @@ ("premium_loss_mismatch" :> 0),
        !.loss_95 = loss_95, !.premium_25 = premium_25 ]

Rule5With(st, loss_95, premium_25) ==
    [ RuleBlock(st, Mask5(st.claims, loss_95, premium_25), "premium_loss_mismatch")
        EXCEPT !.loss_95 = loss_95, !.premium_25 = premium_25 ]

Rule5(st) == Rule5With(st, Loss95(st.claims), Premium25(st.claims))

\* the last lines: flags cleaned and the three values returned
Return(st) ==
    [ claims      |-> CleanFlags(st.claims),
      flag_counts |-> st.flag_counts,
      thresholds  |-> [ loss_95_threshold    |-> st.loss_95,
                        premium_25_threshold |-> st.premium_25,
                        age_group_thresholds |-> st.group_stats ] ]

\* CallerTable as it would be if the tracking columns were written to df
\* itself instead of to the copy
CallerTableWritten(d) ==
    AsSeq([ i \in DOMAIN d |->
              [ customer_id    |-> d[i].customer_id,
                gender         |-> d[i].gender,
                age            |-> d[i].age,
                car_model_year |-> d[i].car_model_year,
                annual_premium |-> d[i].annual_premium,
                total_loss     |-> d[i].total_loss,
                loss_ratio     |-> d[i].loss_ratio,
                risk_score     |-> 0,
                flags          |-> << >> ] ])

\* The caller's table after the call.  Line 53 builds claims as a copy
\* (boolean indexing followed by .copy()); every later write (lines 57-58,
\* 65-66, 73, 80, 82-83, 90-91, 97-98, 105-106, 111, 114) goes to claims, so
\* the rows and columns of df are what they were.
CallerTable(d) == d

\* The whole function: the five rule blocks in their order.
apply_rules(d) == Return(Rule5(Rule4(Rule3(Rule2(Rule1(Start(d)))))))

---------------------------------------------------------------------------
(* The reporting functions *)

\* claims[claims["risk_score"] > 0]: boolean indexing keeps the rows' order
Flagged(rows) == SelectSeq(rows, LAMBDA r : r.risk_score > 0)

\* The orders in which rows of equal risk_score may come out of sort_values.
\* The call passes no kind, so the library sorts with its default "quicksort",
\* which is not a stable sort: the relative order of equal keys is whatever
\* the installed build produces.  Two of the possible outcomes are modelled:
\* equal keys in their original order, and equal keys in the opposite order.
TieOrders == { "original", "reversed" }
\* SortValues as it would be with the ascending=False argument left out
SortValuesAscending(rows, ties) ==
    Permute(rows,
      AsSeq([ i \in DOMAIN rows |->
                Cardinality({ j \in DOMAIN rows :
                    \/ rows[j].risk_score < rows[i].risk_score
                    \/ /\ rows[j].risk_score = rows[i].risk_score
                       /\ IF ties = "original" THEN j < i ELSE j > i }) + 1 ]))

\* DataFrame.sort_values("risk_score", ascending=False)
SortValues(rows, ties) ==
    Permute(rows,
      AsSeq([ i \in DOMAIN rows |->
                Cardinality({ j \in DOMAIN rows :
                    \/ rows[j].risk_score > rows[i].risk_score
                    \/ /\ rows[j].risk_score = rows[i].risk_score
                       /\ IF ties = "original" THEN j < i ELSE j > i }) + 1 ]))

\* ScoreDist as it would be with an entry for every score from 0 to 10
ScoreDistAllScores(flagged) ==
    [ s \in 0..10 |->
        Cardinality({ k \in DOMAIN flagged : flagged[k].risk_score = s }) ]

\* flagged["risk_score"].value_counts().sort_index(): score -> number of rows,
\* for the scores that occur
ScoreDist(flagged) ==
    [ s \in { flagged[k].risk_score : k \in DOMAIN flagged } |->
        Cardinality({ k \in DOMAIN flagged : flagged[k].risk_score = s }) ]

\* DataFrame.head(n)
HeadRows(rows, n) == SubSeq(rows, 1, IF Len(rows) < n THEN Len(rows) ELSE n)

\* CsvRow as it would be if the flags were written as the report shows them,
\* each identifier replaced by its label
CsvRowDisplayFlags(r) ==
    [ customer_id    |-> r.customer_id,
      gender         |-> r.gender,
      age            |-> r.age,
      car_model_year |-> r.car_model_year,
      annual_premium |-> r.annual_premium,
      total_loss     |-> r.total_loss,
      loss_ratio     |-> r.loss_ratio,
      risk_score     |-> r.risk_score,
      flags          |-> [ k \in DOMAIN r.flags |->
                             IF r.flags[k] \in Rules
                             THEN RULE_DEFINITIONS[r.flags[k]].label
                             ELSE r.flags[k] ] ]

\* flagged[cols]: the columns written to the CSV file (the index is not
\* written); the flags column is written as apply_rules left it.
CsvRow(r) ==
    [ customer_id    |-> r.customer_id,
      gender         |-> r.gender,
      age            |-> r.age,
      car_model_year |-> r.car_model_year,
      annual_premium |-> r.annual_premium,
      total_loss     |-> r.total_loss,
      loss_ratio     |-> r.loss_ratio,
      risk_score     |-> r.risk_score,
      flags          |-> r.flags ]

\* [RULE_DEFINITIONS[f]["label"] for f in row["flags"].split(",")
\*  if f in RULE_DEFINITIONS]: the pieces between separators that name a rule
FlagsDisplay(flags) ==
    LET names == SelectSeq(flags, LAMBDA t : t \in Rules)
    IN  [ k \in DOMAIN names |-> RULE_DEFINITIONS[names[k]].label ]

\* one <tr> of the report's table
TableRow(r) ==
    [ customer_id   |-> r.customer_id,
      risk_score    |-> r.risk_score,
      flags_display |-> FlagsDisplay(r.flags) ]

\* what print_summary computes from flagged before it prints
Summary(flagged) ==
    [ flagged |-> Len(flagged), score_dist |-> ScoreDist(flagged) ]

\* the rows to_csv writes
CsvRows(flagged) == AsSeq([ k \in DOMAIN flagged |-> CsvRow(flagged[k]) ])

\* table_rows: one <tr> per row of top30
TableRows(top30) == AsSeq([ k \in DOMAIN top30 |-> TableRow(top30[k]) ])

\* what generate_html_report builds from the sorted flagged rows
Report(flagged) ==
    [ top30      |-> TableRows(HeadRows(flagged, TopN)),
      score_dist |-> ScoreDist(flagged) ]

---------------------------------------------------------------------------
(* The enumerated inputs *)

Ages     == { 24, 25 }
Years    == { 2021, 2022 }
Premiums == { 1000, 1200 }
Losses   == { 0, 10000, 15000, 16000 }

\* a row without its customer_id
Pool ==
    [ age : Ages, car_model_year : Years, annual_premium : Premiums,
      total_loss : Losses ]

\* the rows that may follow the repeated rows
ExtraPool ==
    [ age : Ages, car_model_year : { 2022 }, annual_premium : Premiums,
      total_loss : Losses ]

\* the rows repeated BulkSize times to populate an age group
BulkPool ==
    [ age : Ages, car_model_year : { 2021 }, annual_premium : Premiums,
      total_loss : { 15000 } ]

\* The gender column.  The generator draws it at random and no rule reads
\* it; the tables enumerated here hold one of its possible draws.
Gender(i) == IF i % 2 = 1 THEN "Male" ELSE "Female"

\* generate_mock_data.py: customer_id = 1..N in row order, loss_ratio derived
MakeTable(rs) ==
    AsSeq([ i \in DOMAIN rs |->
              [ customer_id    |-> i,
                gender         |-> Gender(i),
                age            |-> rs[i].age,
                car_model_year |-> rs[i].car_model_year,
                annual_premium |-> rs[i].annual_premium,
                total_loss     |-> rs[i].total_loss,
                loss_ratio     |-> loss_ratio(rs[i].annual_premium, rs[i].total_loss) ] ])

SeqsUpTo(S, n) == UNION { [ 1..m -> S ] : m \in 0..n }

\* a table of up to MaxRecs freely chosen rows
FreeInput(t) == \E rs \in SeqsUpTo(Pool, MaxRecs) : t = MakeTable(rs)

\* a table of BulkSize equal rows followed by up to MaxExtra chosen rows
BulkInput(t) ==
    \E b \in BulkPool, rs \in SeqsUpTo(ExtraPool, MaxExtra) :
        t = MakeTable([ i \in 1..BulkSize |-> b ] \o rs)

\* a table of BulkSize equal rows followed by two rows of the same age group,
\* one with a larger and one with a smaller loss
SpreadInput(t) ==
    \E b \in BulkPool :
        t = MakeTable([ i \in 1..BulkSize |-> b ]
                        \o << [ b EXCEPT !.total_loss = 16000 ],
                               [ b EXCEPT !.total_loss = 14600 ] >>)

\* The three claim records of the specification's end-to-end scenario.  The
\* fields the scenario leaves open are filled so that the rules it names are
\* the only ones of rules 1-4 that can fire: the first record's age is 25 or
\* 40, and the first two records' cars are older than 2022.
ScenarioRecords(age1) ==
    << [ age |-> age1, car_model_year |-> 2021, annual_premium |-> 1000,
         total_loss |-> 16000 ],
       [ age |-> 22, car_model_year |-> 2021, annual_premium |-> 900,
         total_loss |-> 16000 ],
       [ age |-> 40, car_model_year |-> 2023, annual_premium |-> 1200,
         total_loss |-> 10500 ] >>

\* a row without a claim
NoClaimRow ==
    [ age |-> 40, car_model_year |-> 2021, annual_premium |-> 1000,
      total_loss |-> 0 ]

\* the scenario's records in any order, after zero or one row without a claim
ScenarioInput(t) ==
    \E age1 \in { 25, 40 }, order \in Permutations(1..3), lead \in 0..1 :
        t = MakeTable([ i \in 1..lead |-> NoClaimRow ]
                        \o [ k \in 1..3 |-> ScenarioRecords(age1)[order[k]] ])

\* The cell pd.read_csv yields for an empty field of the age column: NaN.
\* The code reads an age in two places, age < 25 and the right-open bins of
\* pd.cut that end at 200; NaN is False in the first and falls in no bin in
\* the second.  It is held as a number above every bin edge, for which both
\* readings give the same outcome.
NaN == 1000000

\* the ages of the rows a file may hold beyond the generator's 18..75
FileAges == { 0 - 1, 24, 200, NaN }

\* annual_premium of a file's row: a premium of 0 beside a positive one
FilePremiums == { 0, 1000 }

\* The loss_ratio column as a file may hold it (in 1/RatioScale): 0, which is
\* the generator's value when annual_premium is 0, and 16, which is the
\* generator's value for a loss of 16000 on a premium of 1000.
FileRatios == { 0, 16 * RatioScale }

\* A row of a data file that the generator did not necessarily write: the
\* loss_ratio column is whatever the file holds, load_data checks nothing.
FilePool ==
    [ age : FileAges, car_model_year : { 2021 }, annual_premium : FilePremiums,
      total_loss : { 16000 }, loss_ratio : FileRatios ]

\* pd.read_csv(path): the table as the file holds it, every column as stored
ReadTable(rs) ==
    AsSeq([ i \in DOMAIN rs |->
              [ customer_id    |-> i,
                gender         |-> Gender(i),
                age            |-> rs[i].age,
                car_model_year |-> rs[i].car_model_year,
                annual_premium |-> rs[i].annual_premium,
                total_loss     |-> rs[i].total_loss,
                loss_ratio     |-> rs[i].loss_ratio ] ])

\* a file of 1..MaxFile rows
FileInput(t) ==
    \E m \in 1..MaxFile : \E rs \in [ 1..m -> FilePool ] : t = ReadTable(rs)

---------------------------------------------------------------------------
(* The console *)

\* one printed line: the function that printed it, its text, the number in it
Line(fn, text, n) == [ fn |-> fn, text |-> text, n |-> n ]

\* print(f"Loaded {len(df):,} records from {path.name}")
ConsoleOfLoadData(d) == << Line("load_data", "Loaded records", Len(d)) >>

\* print(f"Customers with claims (total_loss > 0): {len(claims):,}\n")
ConsoleOfApplyRules(d) ==
    << Line("apply_rules", "Customers with claims", Len(ClaimSubset(d))) >>

\* the lines print_summary prints before it computes the flag rate
SummaryHead(total_records, rows) ==
    << Line("print_summary", "Total records in dataset", total_records),
       Line("print_summary", "Total claims analysed", Len(rows)),
       Line("print_summary", "Unique customers flagged", Len(Flagged(rows))) >>

\* the lines print_summary prints from the flag rate on
SummaryRest(rows) ==
    << Line("print_summary", "Flag rate and the tables", Len(Flagged(rows))) >>

---------------------------------------------------------------------------
(* The state machine: main() *)

\* no request is being handled
NoRequest == [ pc |-> "idle" ]

Init ==
    /\ \/ FreeInput(df) \/ BulkInput(df) \/ SpreadInput(df)
       \/ ScenarioInput(df) \/ FileInput(df)
    /\ pc = "loaded"
    /\ claims = << >>
    /\ flag_counts = << >>
    /\ thresholds = [ loss_95_threshold    |-> NoQuantile,
                      premium_25_threshold |-> NoQuantile,
                      age_group_thresholds |-> << >> ]
    /\ summary = [ flagged |-> 0, score_dist |-> << >> ]
    /\ csv = << >>
    /\ report = [ top30 |-> << >>, score_dist |-> << >> ]
    /\ stdout = ConsoleOfLoadData(df)
    /\ calls = << >>
    /\ ask = NoRequest

\* claims, flag_counts, thresholds = apply_rules(df)
ApplyRules ==
    /\ pc = "loaded"
    /\ \E res \in { apply_rules(df) } :
         /\ claims' = res.claims
         /\ flag_counts' = res.flag_counts
         /\ thresholds' = res.thresholds
    /\ df' = CallerTable(df)
    /\ stdout' = stdout \o ConsoleOfApplyRules(df)
    /\ pc' = "scored"
    /\ UNCHANGED <<summary, csv, report, calls, ask>>

\* print_summary(len(df), claims, flag_counts, thresholds); the flag rate
\* len(flagged)/len(claims) raises ZeroDivisionError when there is no claim
PrintSummary ==
    /\ pc = "scored"
    /\ IF Len(claims) = 0
       THEN /\ pc' = "raised"
            /\ stdout' = stdout \o SummaryHead(Len(df), claims)
            /\ UNCHANGED summary
       ELSE /\ pc' = "summarised"
            /\ stdout' = stdout \o SummaryHead(Len(df), claims) \o SummaryRest(claims)
            /\ summary' = Summary(Flagged(claims))
    /\ UNCHANGED <<df, claims, flag_counts, thresholds, csv, report, calls, ask>>

\* save_flagged_csv(claims, OUTPUT_CSV)
SaveFlaggedCsv ==
    /\ pc = "summarised"
    /\ \E ties \in TieOrders :
         csv' = CsvRows(SortValues(Flagged(claims), ties))
    /\ stdout' = Append(stdout, Line("save_flagged_csv", "Saved flagged claims",
                                     Len(Flagged(claims))))
    /\ pc' = "saved"
    /\ UNCHANGED <<df, claims, flag_counts, thresholds, summary, report, calls, ask>>

\* a row of the table cannot be rendered: int(row['age']) raises ValueError
\* for a NaN age
Unrenderable(top30) == \E k \in DOMAIN top30 : top30[k].age = NaN

\* generate_html_report(len(df), claims, flag_counts, thresholds, OUTPUT_HTML),
\* then main's last print
GenerateHtmlReport ==
    /\ pc = "saved"
    /\ \E ties \in TieOrders :
         \E ranked \in { SortValues(Flagged(claims), ties) } :
            IF Len(claims) = 0 \/ Unrenderable(HeadRows(ranked, TopN))
            THEN /\ pc' = "raised"
                 /\ UNCHANGED <<report, stdout>>
            ELSE /\ pc' = "done"
                 /\ report' = Report(ranked)
                 /\ stdout' = stdout \o
                      << Line("generate_html_report", "Saved HTML report", 0),
                         Line("main", "Done.", 0) >>
    /\ UNCHANGED <<df, claims, flag_counts, thresholds, summary, csv, calls, ask>>

Next ==
    \/ ApplyRules
    \/ PrintSummary
    \/ SaveFlaggedCsv
    \/ GenerateHtmlReport

Spec == Init /\ [][Next]_vars

---------------------------------------------------------------------------
(* Vocabulary of the properties *)

\* apply_rules has returned
Scored == pc # "loaded"

\* the rule's identifier occurs in the row's flags
HasFlag(r, rule) == \E k \in DOMAIN r.flags : r.flags[k] = rule

\* The rule table of the specification, read against a returned row and the
\* returned thresholds.
TablePredicate(rule, r) ==
    CASE rule = "extreme_loss_ratio" ->
           r.loss_ratio > 15 * RatioScale
      [] rule = "statistical_outlier" ->
           /\ AgeGroup(r.age) \in DOMAIN thresholds.age_group_thresholds
           /\ AboveThreshold(r.total_loss,
                             thresholds.age_group_thresholds[AgeGroup(r.age)])
      [] rule = "new_car_high_loss" ->
           r.car_model_year >= 2022 /\ r.total_loss > 10000
      [] rule = "young_driver_extreme" ->
           r.age < 25 /\ r.total_loss > 15000
      [] rule = "premium_loss_mismatch" ->
           /\ GeQuantile(r.total_loss, thresholds.loss_95_threshold)
           /\ LeQuantile(r.annual_premium, thresholds.premium_25_threshold)

\* the weights {3,2,2,2,1} of the rule table
TableWeight(rule) ==
    CASE rule = "extreme_loss_ratio"    -> 3
      [] rule = "statistical_outlier"   -> 2
      [] rule = "new_car_high_loss"     -> 2
      [] rule = "young_driver_extreme"  -> 2
      [] rule = "premium_loss_mismatch" -> 1

\* the rules whose table predicate is true of the row
Fired(r) == { rule \in Rules : TablePredicate(rule, r) }

\* the fixed order, its reverse and its rotations
EvaluationOrders ==
    { RuleOrder, [ k \in 1..5 |-> RuleOrder[6 - k] ] }
      \cup { [ k \in 1..5 |-> RuleOrder[((k + d) % 5) + 1] ] : d \in 0..4 }

\* the weights of the rules in fired added up in the given order of evaluation
SumInOrder(fired, order) ==
    LET f[k \in 0..Len(order)] ==
          IF k = 0 THEN 0
          ELSE f[k - 1] + (IF order[k] \in fired THEN TableWeight(order[k]) ELSE 0)
    IN  f[Len(order)]

\* score is the sum of the weights of fired in every order of evaluation
SumInEveryOrder(score, fired) ==
    \A order \in EvaluationOrders : score = SumInOrder(fired, order)

\* the identifiers in names joined by the separator
Join(names) ==
    LET f[k \in 0..Len(names)] ==
          IF k = 0 THEN << >>
          ELSE IF k = 1 THEN << names[1] >>
          ELSE f[k - 1] \o << Comma, names[k] >>
    IN  f[Len(names)]

---------------------------------------------------------------------------
(* Properties of apply_rules *)

\* C1: every returned row's risk_score is the sum of the weights {3,2,2,2,1}
\* of exactly the rules whose predicate is true of it, whatever the order in
\* which the rules are evaluated.
C1_ScoreIsSumOfFiredWeights ==
    Scored =>
      \A k \in DOMAIN claims :
        SumInEveryOrder(claims[k].risk_score, Fired(claims[k]))

\* C1 witness: a scored row on which three rules fired, the outlier rule among them
C1_Witness ==
    /\ Scored
    /\ \E k \in DOMAIN claims :
         /\ Cardinality(Fired(claims[k])) >= 3
         /\ "statistical_outlier" \in Fired(claims[k])
         /\ claims[k].risk_score >= 6

\* C2: a row's flags are exactly the identifiers of the rules that fired, each
\* once, in the fixed evaluation order, separated by single separators with
\* none leading or trailing.
C2_FlagsAreFiredRulesInOrder ==
    Scored =>
      \A k \in DOMAIN claims :
        claims[k].flags =
          Join(SelectSeq(RuleOrder, LAMBDA rule : TablePredicate(rule, claims[k])))

\* C2 witness: a row with two or more rules fired (so a separator is kept
\* inside and one was stripped at the end) beside a row with none
C2_Witness ==
    /\ Scored
    /\ \E k \in DOMAIN claims : Len(claims[k].flags) >= 3
    /\ \E k \in DOMAIN claims : claims[k].flags = << >>

\* C3: one returned row per input row with total_loss > 0, in particular the
\* rows that score 0, and none for an input row with total_loss = 0.
C3_OneAssessmentPerClaimRecord ==
    Scored =>
      /\ \A i \in DOMAIN df :
           Cardinality({ k \in DOMAIN claims : claims[k].index = i })
             = IF df[i].total_loss > 0 THEN 1 ELSE 0
      /\ \A k \in DOMAIN claims :
           /\ claims[k].index \in DOMAIN df
           /\ claims[k].customer_id = df[claims[k].index].customer_id
           /\ claims[k].total_loss = df[claims[k].index].total_loss

\* C3 witness: an input with a zero-loss row, whose result holds a row that
\* scored 0 and a row that scored more
C3_Witness ==
    /\ Scored
    /\ \E i \in DOMAIN df : df[i].total_loss = 0
    /\ \E k \in DOMAIN claims : claims[k].risk_score = 0
    /\ \E k \in DOMAIN claims : claims[k].risk_score > 0

---------------------------------------------------------------------------
(* Properties of the ranked view *)

\* the position in df of the customer a written row belongs to
PosOf(cid) == CHOOSE i \in DOMAIN df : df[i].customer_id = cid

\* view holds exactly the returned rows with risk_score > 0, each once
ExactlyFlagged(view) ==
    /\ \A k \in DOMAIN claims :
         Cardinality({ j \in DOMAIN view :
                         /\ view[j].customer_id = claims[k].customer_id
                         /\ view[j].risk_score = claims[k].risk_score })
           = IF claims[k].risk_score > 0 THEN 1 ELSE 0
    /\ \A j \in DOMAIN view :
         \E k \in DOMAIN claims : view[j].customer_id = claims[k].customer_id

\* view is ordered by risk_score, highest first
Descending(view) ==
    \A i, j \in DOMAIN view : i < j => view[i].risk_score >= view[j].risk_score

\* rows of equal risk_score stand in their original dataset order
TiesInOriginalOrder(view) ==
    \A i, j \in DOMAIN view :
        (i < j /\ view[i].risk_score = view[j].risk_score)
          => PosOf(view[i].customer_id) < PosOf(view[j].customer_id)

\* view is the first rows of a ranking of exactly the flagged rows
TopOfRanking(view, n) ==
    /\ Len(view) = (IF Len(Flagged(claims)) < n THEN Len(Flagged(claims)) ELSE n)
    /\ \A j \in DOMAIN view :
         Cardinality({ i \in DOMAIN view : view[i].customer_id = view[j].customer_id }) = 1
    /\ \A j \in DOMAIN view :
         \E k \in DOMAIN claims :
            /\ claims[k].customer_id = view[j].customer_id
            /\ claims[k].risk_score = view[j].risk_score
            /\ claims[k].risk_score > 0
    /\ Descending(view)
    /\ \A k \in DOMAIN claims :
         (\A j \in DOMAIN view : view[j].customer_id # claims[k].customer_id)
           => \A j \in DOMAIN view : view[j].risk_score >= claims[k].risk_score

---------------------------------------------------------------------------
(* Properties of the single rules *)

\* C6: rule 1 fires exactly for the rows whose loss_ratio is strictly greater
\* than 15; a loss_ratio of exactly 15 does not trigger it.
C6_Rule1StrictlyAbove15 ==
    Scored =>
      /\ \A k \in DOMAIN claims :
           HasFlag(claims[k], "extreme_loss_ratio")
             <=> claims[k].loss_ratio > 15 * RatioScale
      /\ flag_counts["extreme_loss_ratio"] =
           Cardinality({ k \in DOMAIN claims : claims[k].loss_ratio > 15 * RatioScale })

\* C6 witness: a row with loss_ratio exactly 15 without the flag beside a row
\* with a larger loss_ratio that carries it
C6_Witness ==
    /\ Scored
    /\ \E k \in DOMAIN claims :
         /\ claims[k].loss_ratio = 15 * RatioScale
         /\ ~HasFlag(claims[k], "extreme_loss_ratio")
    /\ \E k \in DOMAIN claims :
         /\ HasFlag(claims[k], "extreme_loss_ratio")
         /\ claims[k].risk_score >= 3

\* C7: rule 3 fires exactly for the rows with car_model_year >= 2022 and
\* total_loss > 10000; year 2022 with a loss of exactly 10000 does not
\* trigger it and year 2021 never does.
C7_Rule3NewCarHighLoss ==
    Scored =>
      \A k \in DOMAIN claims :
        /\ HasFlag(claims[k], "new_car_high_loss")
             <=> (claims[k].car_model_year >= 2022 /\ claims[k].total_loss > 10000)
        /\ (claims[k].car_model_year = 2022 /\ claims[k].total_loss = 10000)
             => ~HasFlag(claims[k], "new_car_high_loss")
        /\ claims[k].car_model_year = 2021
             => ~HasFlag(claims[k], "new_car_high_loss")

\* C7 witness: year 2022 with loss 10000 unflagged, year 2021 with a loss
\* above 10000 unflagged, year 2022 with a loss above 10000 flagged
C7_Witness ==
    /\ Scored
    /\ \E k \in DOMAIN claims :
         /\ claims[k].car_model_year = 2022 /\ claims[k].total_loss = 10000
         /\ ~HasFlag(claims[k], "new_car_high_loss")
    /\ \E k \in DOMAIN claims :
         /\ claims[k].car_model_year = 2021 /\ claims[k].total_loss > 10000
         /\ ~HasFlag(claims[k], "new_car_high_loss")
    /\ \E k \in DOMAIN claims :
         /\ claims[k].car_model_year = 2022
         /\ HasFlag(claims[k], "new_car_high_loss")

\* C8: rule 4 fires exactly for the rows with age < 25 and total_loss > 15000;
\* age 25 never fires and a loss of exactly 15000 never fires.
C8_Rule4YoungDriverExtreme ==
    Scored =>
      \A k \in DOMAIN claims :
        /\ HasFlag(claims[k], "young_driver_extreme")
             <=> (claims[k].age < 25 /\ claims[k].total_loss > 15000)
        /\ claims[k].age = 25 => ~HasFlag(claims[k], "young_driver_extreme")
        /\ claims[k].total_loss = 15000 => ~HasFlag(claims[k], "young_driver_extreme")

\* C8 witness: age 25 with a loss above 15000 unflagged, age 24 with a loss of
\* exactly 15000 unflagged, age 24 with a loss above 15000 flagged
C8_Witness ==
    /\ Scored
    /\ \E k \in DOMAIN claims :
         /\ claims[k].age = 25 /\ claims[k].total_loss > 15000
         /\ ~HasFlag(claims[k], "young_driver_extreme")
    /\ \E k \in DOMAIN claims :
         /\ claims[k].age = 24 /\ claims[k].total_loss = 15000
         /\ ~HasFlag(claims[k], "young_driver_extreme")
    /\ \E k \in DOMAIN claims :
         /\ claims[k].age = 24
         /\ HasFlag(claims[k], "young_driver_extreme")

\* the total_loss column and the annual_premium column of the returned rows
AllLosses == AsSeq([ k \in DOMAIN claims |-> claims[k].total_loss ])
AllPremiums == AsSeq([ k \in DOMAIN claims |-> claims[k].annual_premium ])

\* C9: rule 5 fires exactly for the rows with total_loss >= loss_p95 and
\* annual_premium <= premium_p25, both inclusive, where loss_p95 and
\* premium_p25 are the one 95th / 25th percentile of the whole claim subset,
\* whatever the row's age group.
C9_Rule5GlobalPercentiles ==
    /\ pc = "scored" =>
         /\ thresholds.loss_95_threshold = Quantile(AllLosses, 19, 20)
         /\ thresholds.premium_25_threshold = Quantile(AllPremiums, 1, 4)
    /\ Scored =>
         \A k \in DOMAIN claims :
           HasFlag(claims[k], "premium_loss_mismatch")
             <=> /\ ~thresholds.loss_95_threshold.nan
                 /\ ~thresholds.premium_25_threshold.nan
                 /\ 20 * claims[k].total_loss >= thresholds.loss_95_threshold.num
                 /\ 4 * claims[k].annual_premium <= thresholds.premium_25_threshold.num

\* C9 witness: rows of two age groups; a row whose loss equals loss_p95 and
\* whose premium equals premium_p25 carries the flag, a row above premium_p25
\* does not, and a row below loss_p95 does not
C9_Witness ==
    /\ Scored
    /\ \E j, k \in DOMAIN claims : AgeGroup(claims[j].age) # AgeGroup(claims[k].age)
    /\ \E k \in DOMAIN claims :
         /\ 20 * claims[k].total_loss = thresholds.loss_95_threshold.num
         /\ 4 * claims[k].annual_premium = thresholds.premium_25_threshold.num
         /\ HasFlag(claims[k], "premium_loss_mismatch")
    /\ \E k \in DOMAIN claims :
         /\ 4 * claims[k].annual_premium > thresholds.premium_25_threshold.num
         /\ ~HasFlag(claims[k], "premium_loss_mismatch")
    /\ \E k \in DOMAIN claims :
         /\ 20 * claims[k].total_loss < thresholds.loss_95_threshold.num
         /\ ~HasFlag(claims[k], "premium_loss_mismatch")

\* the returned rows of the same age group as row k
SameGroup(k) ==
    { j \in DOMAIN claims : AgeGroup(claims[j].age) = AgeGroup(claims[k].age) }

\* C10: a row that is the only claim row of one of the six age groups never
\* carries the outlier flag, whatever its total_loss, and apply_rules returns
\* (the group is reported with its one row) instead of raising; a later
\* raise has one of its two other causes, no claim row at all or a null age.
C10_SingletonGroupNeverOutlier ==
    Scored =>
      \A k \in DOMAIN claims :
        (AgeGroup(claims[k].age) # "NaN" /\ Cardinality(SameGroup(k)) = 1) =>
          /\ ~HasFlag(claims[k], "statistical_outlier")
          /\ AgeGroup(claims[k].age) \in DOMAIN thresholds.age_group_thresholds
          /\ thresholds.age_group_thresholds[AgeGroup(claims[k].age)].n = 1
          /\ pc = "raised" =>
               (Len(claims) = 0 \/ \E j \in DOMAIN claims : claims[j].age = NaN)

\* C10 witness: a lone row of its age group with the largest loss of the
\* inputs, unflagged, while a row of a populated group carries the outlier flag
C10_Witness ==
    /\ pc = "scored"
    /\ \E k \in DOMAIN claims :
         /\ Cardinality(SameGroup(k)) = 1
         /\ claims[k].total_loss = 16000
         /\ ~HasFlag(claims[k], "statistical_outlier")
    /\ \E k \in DOMAIN claims : HasFlag(claims[k], "statistical_outlier")

---------------------------------------------------------------------------
(* The end-to-end scenario *)

\* the three records of the scenario, as returned rows
ScenarioRecord1(r) ==
    /\ r.annual_premium = 1000 /\ r.total_loss = 16000
    /\ r.age >= 25 /\ r.car_model_year < 2022
ScenarioRecord2(r) ==
    /\ r.age = 22 /\ r.annual_premium = 900 /\ r.total_loss = 16000
    /\ r.car_model_year < 2022
ScenarioRecord3(r) ==
    /\ r.age = 40 /\ r.car_model_year = 2023
    /\ r.annual_premium = 1200 /\ r.total_loss = 10500

\* the claim subset is the scenario's three records, in some order
InScenario ==
    /\ Len(claims) = 3
    /\ \E i, j, k \in DOMAIN claims :
         /\ ScenarioRecord1(claims[i])
         /\ ScenarioRecord2(claims[j])
         /\ ScenarioRecord3(claims[k])

\* the risk_score column of a view, in its order
ScoresOf(view) == [ k \in DOMAIN view |-> view[k].risk_score ]

\* the three records score s1, s2 and s3
ScenarioScores(s1, s2, s3) ==
    \A k \in DOMAIN claims :
        /\ ScenarioRecord1(claims[k]) => claims[k].risk_score = s1
        /\ ScenarioRecord2(claims[k]) => claims[k].risk_score = s2
        /\ ScenarioRecord3(claims[k]) => claims[k].risk_score = s3

\* C11 as stated: in the three-record scenario the scores are 3, 5 and 2,
\* the ranked output is ordered [5, 3, 2], and the per-rule counts are
\* rule 1 = 2, rule 3 = 1, rule 4 = 1.
C11_ScenarioScores352 ==
    (pc = "saved" /\ InScenario) =>
      /\ ScenarioScores(3, 5, 2)
      /\ ScoresOf(csv) = << 5, 3, 2 >>
      /\ flag_counts["extreme_loss_ratio"] = 2
      /\ flag_counts["new_car_high_loss"] = 1
      /\ flag_counts["young_driver_extreme"] = 1

\* C11 as amended: in the three-record scenario (first record aged 25 or
\* more, first two records' cars older than 2022) the scores are 3, 6 and 2,
\* because the second record also meets rule 5 (loss_p95 = 16000,
\* premium_p25 = 950); the ranked output is ordered [6, 3, 2] and the
\* per-rule counts are rule 1 = 2, rule 2 = 0, rule 3 = 1, rule 4 = 1,
\* rule 5 = 1.
C11_ScenarioScores362 ==
    (pc = "saved" /\ InScenario) =>
      /\ ScenarioScores(3, 6, 2)
      /\ ScoresOf(csv) = << 6, 3, 2 >>
      /\ thresholds.loss_95_threshold = [ nan |-> FALSE, num |-> 20 * 16000, den |-> 20 ]
      /\ thresholds.premium_25_threshold = [ nan |-> FALSE, num |-> 4 * 950, den |-> 4 ]
      /\ flag_counts["extreme_loss_ratio"] = 2
      /\ flag_counts["statistical_outlier"] = 0
      /\ flag_counts["new_car_high_loss"] = 1
      /\ flag_counts["young_driver_extreme"] = 1
      /\ flag_counts["premium_loss_mismatch"] = 1

\* C11 witness: the scenario scored and ranked, its records given in another
\* order than the ranking and after a row without a claim
C11_Witness ==
    /\ pc = "saved"
    /\ InScenario
    /\ Len(df) = 4
    /\ ScenarioRecord3(claims[1])
    /\ Len(csv) = 3

---------------------------------------------------------------------------
(* Properties of the returned values *)

\* the table holds a record and no record has a claim
NoClaimRecord == Len(df) > 0 /\ \A i \in DOMAIN df : ~(df[i].total_loss > 0)

\* C12: when no input record has total_loss > 0, apply_rules returns an
\* empty collection of rows, a count of 0 for each of the five rules, and
\* loss_p95 and premium_p25 as NaN, not as 0.
C12_EmptyClaimSubset ==
    (Scored /\ NoClaimRecord) =>
      /\ claims = << >>
      /\ DOMAIN flag_counts = Rules
      /\ \A rule \in Rules : flag_counts[rule] = 0
      /\ thresholds.loss_95_threshold.nan
      /\ thresholds.premium_25_threshold.nan
      /\ thresholds.age_group_thresholds = << >>

\* C12 witness: apply_rules has returned for a table of two rows, neither
\* with a claim
C12_Witness ==
    /\ pc = "scored"
    /\ Len(df) = 2
    /\ NoClaimRecord
    /\ Len(claims) = 0

\* the columns of the input table
InputColumns ==
    { "customer_id", "gender", "age", "car_model_year", "annual_premium",
      "total_loss", "loss_ratio" }

C14_PerRuleCounts ==
    Scored =>
      /\ DOMAIN flag_counts = Rules
      /\ \A rule \in Rules :
           /\ flag_counts[rule] =
                Cardinality({ k \in DOMAIN claims : TablePredicate(rule, claims[k]) })
           /\ flag_counts[rule] =
                Cardinality({ k \in DOMAIN claims : HasFlag(claims[k], rule) })

\* C14 witness: two rules counted on the same row, a rule counted on two rows
\* and a rule counted on none
C14_Witness ==
    /\ Scored
    /\ \E k \in DOMAIN claims :
         /\ HasFlag(claims[k], "extreme_loss_ratio")
         /\ HasFlag(claims[k], "new_car_high_loss")
    /\ flag_counts["extreme_loss_ratio"] >= 2
    /\ flag_counts["new_car_high_loss"] = 1
    /\ flag_counts["statistical_outlier"] = 0

\* the entries of a histogram added up
SumOfEntries(h) ==
    LET f[s \in 0..11] ==
          IF s = 0 THEN 0
          ELSE f[s - 1] + (IF (s - 1) \in DOMAIN h THEN h[s - 1] ELSE 0)
    IN  f[11]

\* h is the histogram of the scores of the flagged rows
HistogramOfFlagged(h) ==
    /\ DOMAIN h = { claims[k].risk_score : k \in DOMAIN claims } \ { 0 }
    /\ \A s \in DOMAIN h :
         h[s] = Cardinality({ k \in DOMAIN claims : claims[k].risk_score = s })
    /\ \A s \in DOMAIN h : h[s] > 0
    /\ SumOfEntries(h) =
         Cardinality({ k \in DOMAIN claims : claims[k].risk_score > 0 })

\* C15: the histogram of print_summary and that of generate_html_report have
\* one entry per score that occurs among the flagged rows, none for score 0
\* or for a score that does not occur; each entry is the number of flagged
\* rows with that score and the entries add up to the number of flagged rows.
C15_ScoreHistogram ==
    /\ pc \in { "summarised", "saved", "done" } =>
         /\ HistogramOfFlagged(summary.score_dist)
         /\ summary.flagged = SumOfEntries(summary.score_dist)
    /\ pc = "done" => HistogramOfFlagged(report.score_dist)

\* C15 witness: both histograms built, with two entries of which one counts
\* two rows or more, while a returned row scored 0
C15_Witness ==
    /\ pc = "done"
    /\ Cardinality(DOMAIN report.score_dist) = 2
    /\ \E s \in DOMAIN summary.score_dist : summary.score_dist[s] >= 2
    /\ \E k \in DOMAIN claims : claims[k].risk_score = 0

\* the sums of the subsets of the weights {3,2,2,2,1}
SubsetSums == { SumInOrder(S, RuleOrder) : S \in SUBSET Rules }

\* how often the rule's identifier occurs in the row's flags
Occurrences(r, rule) == Cardinality({ k \in DOMAIN r.flags : r.flags[k] = rule })

\* C16: every returned row's risk_score is an integer from 0 to 10 and a sum
\* of a subset of the weights {3,2,2,2,1}, and no rule's weight was added to
\* a row more than once.
C16_ScoreRange ==
    Scored =>
      \A k \in DOMAIN claims :
        /\ claims[k].risk_score \in 0..10
        /\ claims[k].risk_score \in SubsetSums
        /\ \A rule \in Rules : Occurrences(claims[k], rule) <= 1
        /\ claims[k].risk_score =
             SumInOrder({ rule \in Rules : Occurrences(claims[k], rule) = 1 }, RuleOrder)

\* C16 witness: a row on which all five rules fired, scoring 10, beside a row
\* that scored 0
C16_Witness ==
    /\ Scored
    /\ \E k \in DOMAIN claims :
         claims[k].risk_score = 10 /\ \A rule \in Rules : HasFlag(claims[k], rule)
    /\ \E k \in DOMAIN claims : claims[k].risk_score = 0 /\ claims[k].flags = << >>

---------------------------------------------------------------------------
(* Properties of the input's fields *)

\* total_loss / annual_premium > 15, with the ratio taken as 0 when
\* annual_premium <= 0
RecomputedRatioAbove15(r) ==
    r.annual_premium > 0 /\ r.total_loss > 15 * r.annual_premium

\* C17: rule 1 compares total_loss / annual_premium of the same record
\* (0 when annual_premium <= 0) against 15, recomputed from the two fields:
\* a record whose stored loss_ratio differs from it is scored by the
\* recomputed value.
C17_Rule1UsesRecomputedRatio ==
    Scored =>
      \A k \in DOMAIN claims :
        HasFlag(claims[k], "extreme_loss_ratio") <=> RecomputedRatioAbove15(claims[k])

\* the six bands with the lowest unlimited below and the highest unlimited above
UnlimitedBand(age) ==
    IF age < 25 THEN "<25"
    ELSE IF age < 35 THEN "25-34"
    ELSE IF age < 45 THEN "35-44"
    ELSE IF age < 55 THEN "45-54"
    ELSE IF age < 65 THEN "55-64"
    ELSE "65+"

\* C18: every returned row with an integer age belongs to exactly one of the
\* six bands, upper bounds exclusive, the lowest band unlimited below and the
\* highest unlimited above, and its band has an entry among the thresholds.
C18_EveryAgeHasBand ==
    Scored =>
      \A k \in DOMAIN claims :
        claims[k].age # NaN =>
          /\ AgeGroup(claims[k].age) = UnlimitedBand(claims[k].age)
          /\ AgeGroup(claims[k].age) \in DOMAIN thresholds.age_group_thresholds

\* C19: once apply_rules has returned (no validation error was raised), rule 1
\* has not fired for any row with annual_premium <= 0, and rules 2-5 are
\* evaluated on such a row as on any other.
C19_NonPositivePremiumSkipsRule1 ==
    Scored =>
      \A k \in DOMAIN claims :
        claims[k].annual_premium <= 0 =>
          /\ ~HasFlag(claims[k], "extreme_loss_ratio")
          /\ \A rule \in Rules \ { "extreme_loss_ratio" } :
               HasFlag(claims[k], rule) <=> TablePredicate(rule, claims[k])

\* C20: when a record of the input has a null required field (here its age),
\* the run stops before any assessment is returned.
C20_FailsFastOnNullField ==
    (\E i \in DOMAIN df : df[i].age = NaN) =>
      /\ pc \notin { "scored", "summarised", "saved", "done" }
      /\ claims = << >>

---------------------------------------------------------------------------
(* Properties of the CSV export *)

\* the fields of a written row
CsvColumns ==
    { "customer_id", "gender", "age", "car_model_year", "annual_premium",
      "total_loss", "loss_ratio", "risk_score", "flags" }

\* every written row has the nine fields, with the values of the returned row
\* of the same customer
CsvFieldsCopied ==
    \A j \in DOMAIN csv :
        /\ DOMAIN csv[j] = CsvColumns
        /\ \E k \in DOMAIN claims :
             /\ claims[k].customer_id = csv[j].customer_id
             /\ claims[k].gender = csv[j].gender
             /\ claims[k].age = csv[j].age
             /\ claims[k].car_model_year = csv[j].car_model_year
             /\ claims[k].annual_premium = csv[j].annual_premium
             /\ claims[k].total_loss = csv[j].total_loss
             /\ claims[k].loss_ratio = csv[j].loss_ratio
             /\ claims[k].risk_score = csv[j].risk_score

\* the rules triggered by a row, in evaluation order
TriggeredRules(r) == SelectSeq(RuleOrder, LAMBDA rule : TablePredicate(rule, r))

\* the display labels of the triggered rules, comma-joined
JoinedLabels(r) ==
    Join([ k \in DOMAIN TriggeredRules(r) |->
             RULE_DEFINITIONS[TriggeredRules(r)[k]].label ])

\* C21 as stated: the CSV export has exactly one row per flagged record, by
\* descending risk_score, with the nine fields, and its flags field is the
\* comma-joined display labels of the triggered rules in evaluation order.
C21_CsvFlagsAreLabels ==
    pc \in { "saved", "done" } =>
      /\ ExactlyFlagged(csv) /\ Descending(csv) /\ CsvFieldsCopied
      /\ \A j \in DOMAIN csv : csv[j].flags = JoinedLabels(csv[j])

\* C21 as amended: the CSV export has exactly one row per flagged record, by
\* descending risk_score, with the nine fields, and its flags field is the
\* comma-joined identifiers of the triggered rules in evaluation order.
C21_CsvFlagsAreIdentifiers ==
    pc \in { "saved", "done" } =>
      /\ ExactlyFlagged(csv) /\ Descending(csv) /\ CsvFieldsCopied
      /\ \A j \in DOMAIN csv : csv[j].flags = Join(TriggeredRules(csv[j]))

\* C21 witness: the file is written with two rows or more, one of them with
\* two triggered rules, male and female customers, and a returned row left out
C21_Witness ==
    /\ pc = "saved"
    /\ Len(csv) >= 2
    /\ Len(csv) < Len(claims)
    /\ \E j \in DOMAIN csv : Len(TriggeredRules(csv[j])) >= 2
    /\ \E i, j \in DOMAIN csv : csv[i].gender # csv[j].gender

---------------------------------------------------------------------------
(* Relations between runs *)

\* the values tried for rule 1's threshold
Limits == { 8, 15, 17, 20 }

\* the number of returned rows that trigger rule 1 at threshold t
TriggerCount(t) == Cardinality(Mask1WithLimit(claims, t))

\* C22: for the dataset at hand, the rows that trigger rule 1 at a threshold
\* t2 are among those that trigger it at any t1 <= t2, so the count never
\* grows when the threshold is raised; at 15 the rows are those the run
\* flagged, and raising 15 to 20 does not increase the returned count.
C22_Rule1MonotoneInThreshold ==
    Scored =>
      /\ \A t1, t2 \in Limits :
           t1 <= t2 =>
             /\ Mask1WithLimit(claims, t2) \subseteq Mask1WithLimit(claims, t1)
             /\ TriggerCount(t2) <= TriggerCount(t1)
      /\ Mask1WithLimit(claims, 15)
           = { k \in DOMAIN claims : HasFlag(claims[k], "extreme_loss_ratio") }
      /\ TriggerCount(15) = flag_counts["extreme_loss_ratio"]
      /\ TriggerCount(20) <= flag_counts["extreme_loss_ratio"]

\* C22 witness: a dataset on which each raise of the threshold loses a row
C22_Witness ==
    /\ Scored
    /\ TriggerCount(8) > TriggerCount(15)
    /\ TriggerCount(15) > TriggerCount(17)
    /\ TriggerCount(17) > TriggerCount(20)

\* the orders in which the input records are given again
Orders == { "reversed", "rotated" }

\* the table d with its records in another order
Reorder(d, how) ==
    IF how = "reversed"
    THEN AsSeq([ k \in DOMAIN d |-> d[Len(d) + 1 - k] ])
    ELSE AsSeq([ k \in DOMAIN d |-> d[(k % Len(d)) + 1] ])

\* res, returned for the reordered input, has the percentiles, the per-rule
\* counts and, customer by customer, the score and flags of this run
SameOutcomes(res) ==
    /\ res.thresholds.loss_95_threshold = thresholds.loss_95_threshold
    /\ res.thresholds.premium_25_threshold = thresholds.premium_25_threshold
    /\ res.flag_counts = flag_counts
    /\ Len(res.claims) = Len(claims)
    /\ \A k \in DOMAIN claims :
         \E j \in DOMAIN res.claims :
            /\ res.claims[j].customer_id = claims[k].customer_id
            /\ res.claims[j].risk_score = claims[k].risk_score
            /\ res.claims[j].flags = claims[k].flags
            /\ HasFlag(res.claims[j], "premium_loss_mismatch")
                 <=> HasFlag(claims[k], "premium_loss_mismatch")

\* C23: loss_p95 and premium_p25 are the same when the input records are
\* given in another order, and so are each record's rule-5 outcome, score
\* and flags.
C23_PermutationInvariant ==
    pc = "scored" =>
      \A how \in Orders : SameOutcomes(apply_rules(Reorder(df, how)))

\* C23 witness: three claim records or more whose losses and premiums are not
\* in ascending order, one meeting rule 5 and one not, so that reversing and
\* rotating change the order the percentiles are computed from
C23_Witness ==
    /\ pc = "scored"
    /\ Len(claims) >= 3
    /\ \E k \in 1..(Len(claims) - 1) : claims[k].total_loss > claims[k + 1].total_loss
    /\ \E k \in 1..(Len(claims) - 1) :
         claims[k].annual_premium > claims[k + 1].annual_premium
    /\ \E k \in DOMAIN claims : HasFlag(claims[k], "premium_loss_mismatch")
    /\ \E k \in DOMAIN claims : ~HasFlag(claims[k], "premium_loss_mismatch")

---------------------------------------------------------------------------
(* Properties of the outlier threshold *)

\* the six age bands
Bands == { "<25", "25-34", "35-44", "45-54", "55-64", "65+" }

\* the losses of the returned rows of band g
BandLosses(g) ==
    GroupLosses(SelectSeq(claims, LAMBDA r : AgeGroup(r.age) = g))

\* x > mean + 3 * stddev with the population standard deviation (divisor n)
\* of n values with sum s and sum of squares q
AbovePopulationThreshold(x, n, s, q) ==
    /\ n * x - s > 0
    /\ (n * x - s) * (n * x - s) > 9 * (n * q - s * s)

\* x > mean + 3 * stddev with the sample standard deviation (divisor n - 1),
\* which is undefined for one value
AboveSampleThreshold(x, n, s, q) ==
    /\ n >= 2
    /\ n * x - s > 0
    /\ (n * x - s) * (n * x - s) * (n - 1) > 9 * n * (n * q - s * s)

\* the threshold returned for band g is made of its n rows' sum s and sum of
\* squares q
ReturnedFor(g, n, s, q) ==
    /\ g \in DOMAIN thresholds.age_group_thresholds
    /\ thresholds.age_group_thresholds[g] = [ n |-> n, sum |-> s, sumsq |-> q ]

\* band g, of n rows with sum s and sum of squares q: rule 2 compared every
\* row against mean + 3 * population stddev, a value that is always defined
PopulationBand(g, n, s, q) ==
    /\ ReturnedFor(g, n, s, q)
    /\ ~ThresholdIsNaN(thresholds.age_group_thresholds[g])
    /\ \A k \in DOMAIN claims :
         AgeGroup(claims[k].age) = g =>
           (HasFlag(claims[k], "statistical_outlier")
              <=> AbovePopulationThreshold(claims[k].total_loss \div StatUnit, n, s, q))

\* the same with the sample stddev, NaN for a band of one row
SampleBand(g, n, s, q) ==
    /\ ReturnedFor(g, n, s, q)
    /\ ThresholdIsNaN(thresholds.age_group_thresholds[g]) <=> (n = 1)
    /\ \A k \in DOMAIN claims :
         AgeGroup(claims[k].age) = g =>
           (HasFlag(claims[k], "statistical_outlier")
              <=> AboveSampleThreshold(claims[k].total_loss \div StatUnit, n, s, q))

\* the bands that hold a returned row
BandsPresent == { AgeGroup(claims[k].age) : k \in DOMAIN claims } \cap Bands

\* C24 as stated: for every band with a claim record, the threshold returned
\* and used by rule 2 is mean + 3 * stddev of the band's total_loss with the
\* population standard deviation (divisor N).
C24_PopulationStd ==
    Scored =>
      \A g \in BandsPresent :
        PopulationBand(g, Len(BandLosses(g)), SumsOf(BandLosses(g)).sum,
                       SumsOf(BandLosses(g)).sumsq)

\* C24 as amended: for every band with a claim record, the threshold returned
\* and used by rule 2 is mean + 3 * stddev of the band's total_loss with the
\* sample standard deviation (divisor N - 1), NaN for a band of one record;
\* every record of the band was compared against the value returned for it.
C24_SampleStd ==
    Scored =>
      \A g \in BandsPresent :
        SampleBand(g, Len(BandLosses(g)), SumsOf(BandLosses(g)).sum,
                   SumsOf(BandLosses(g)).sumsq)

\* C24 witness: a band of twelve rows whose largest loss is above
\* mean + 3 * population stddev but not above mean + 3 * sample stddev, and
\* is not flagged
C24_Witness ==
    /\ Scored
    /\ \E k \in DOMAIN claims :
         /\ AgeGroup(claims[k].age) \in Bands
         /\ AbovePopulationThreshold(
               claims[k].total_loss \div StatUnit,
               Len(BandLosses(AgeGroup(claims[k].age))),
               SumsOf(BandLosses(AgeGroup(claims[k].age))).sum,
               SumsOf(BandLosses(AgeGroup(claims[k].age))).sumsq)
         /\ Len(BandLosses(AgeGroup(claims[k].age))) >= 2
         /\ ~HasFlag(claims[k], "statistical_outlier")

---------------------------------------------------------------------------
(* Side effects of apply_rules *)

\* the lines printed by function fn
PrintedBy(fn) == SelectSeq(stdout, LAMBDA l : l.fn = fn)

\* C26: apply_rules is a pure function of its input and the rule table: when
\* it has returned it has written nothing to the console and to no file.
C26_ApplyRulesWritesNothing ==
    pc = "scored" =>
      /\ PrintedBy("apply_rules") = << >>
      /\ csv = << >>
      /\ report = [ top30 |-> << >>, score_dist |-> << >> ]

---------------------------------------------------------------------------
(* Runs of main() on degenerate data *)

\* the HTML report has been written
ReportWritten == PrintedBy("generate_html_report") # << >>

\* C27: when the claim subset is empty, and when no claim record is flagged,
\* main does not raise, and at its end it has written a CSV with no data row
\* and an HTML report.
C27_MainCompletesWithoutFlagged ==
    (Scored /\ Flagged(claims) = << >>) =>
      /\ pc # "raised"
      /\ pc = "done" => (csv = << >> /\ ReportWritten)

---------------------------------------------------------------------------
(* Flags and scores *)

\* the customers of a sequence of rows
CustomersOf(rows) == { rows[k].customer_id : k \in DOMAIN rows }

\* the returned rows with at least one rule identifier
WithIdentifier == SelectSeq(claims, LAMBDA r : r.flags # << >>)

\* C28: in every returned assessment flags is empty iff risk_score = 0, so
\* the flagged view (risk_score > 0), and the CSV made of it, holds exactly
\* the records with at least one rule identifier.
C28_FlagsEmptyIffScoreZero ==
    Scored =>
      /\ \A k \in DOMAIN claims :
           (claims[k].flags = << >>) <=> (claims[k].risk_score = 0)
      /\ Flagged(claims) = WithIdentifier
      /\ pc \in { "saved", "done" } =>
           /\ Len(csv) = Len(WithIdentifier)
           /\ CustomersOf(csv) = CustomersOf(WithIdentifier)

\* C28 witness: the CSV is written from a result that has a record with an
\* identifier and a record with none
C28_Witness ==
    /\ pc = "saved"
    /\ \E j, k \in DOMAIN claims :
         /\ claims[j].flags = << >> /\ claims[j].risk_score = 0
         /\ claims[k].flags # << >> /\ claims[k].risk_score > 0
         /\ claims[k].customer_id \in CustomersOf(csv)
         /\ claims[j].customer_id \notin CustomersOf(csv)

\* the sum of risk_score over the rows
SumOfScores(rows) ==
    LET f[k \in 0..Len(rows)] ==
          IF k = 0 THEN 0 ELSE f[k - 1] + rows[k].risk_score
    IN  f[Len(rows)]

\* the sum over the five rules of weight x returned trigger count
WeightedCounts(counts) ==
    LET f[k \in 0..Len(RuleOrder)] ==
          IF k = 0 THEN 0
          ELSE f[k - 1] + TableWeight(RuleOrder[k]) * counts[RuleOrder[k]]
    IN  f[Len(RuleOrder)]

\* C29: the sum of risk_score over the returned assessments equals the sum
\* over the five rules of weight x trigger count, and no trigger count
\* exceeds the number of claim records.
C29_ScoreSumIsWeightedCounts ==
    Scored =>
      /\ DOMAIN flag_counts = Rules
      /\ SumOfScores(claims) = WeightedCounts(flag_counts)
      /\ \A rule \in Rules :
           flag_counts[rule] >= 0 /\ flag_counts[rule] <= Len(claims)

\* C29 witness: a result in which a record has several identifiers, rule 5
\* among them, and another record has none
C29_Witness ==
    /\ Scored
    /\ flag_counts["premium_loss_mismatch"] > 0
    /\ \E j, k \in DOMAIN claims :
         /\ claims[j].risk_score = 0
         /\ Len(claims[k].flags) > 1
    /\ SumOfScores(claims) > 3

---------------------------------------------------------------------------
(* Two invocations of apply_rules side by side.  Each has a frame: its     *)
(* position, its argument df, its locals st and the value it returned.     *)
(* A step of an invocation is one block of the function; the blocks of the *)
(* two invocations interleave in any order.  The console is the one object *)
(* both write to.                                                          *)

CallIds == { 1, 2 }

\* the rows of the tables given to the invocations
CallPool ==
    [ age : { 24 }, car_model_year : { 2022 }, annual_premium : { 1000 },
      total_loss : { 0, 10000, 16000 } ]

\* the positions of an invocation, in their order
CallOrder ==
    << "called", "rule1", "rule2", "rule3", "rule4", "rule5", "return", "returned" >>

\* the position that follows position p
NextPosition(p) ==
    CallOrder[(CHOOSE k \in DOMAIN CallOrder : CallOrder[k] = p) + 1]

\* a frame that has not run a line yet
Called(d) ==
    [ pc |-> "called", df |-> d, st |-> Start(<< >>), result |-> Return(Start(<< >>)) ]

\* Assigned as it would be if flag_counts were one module-level dictionary
\* that every invocation binds
AssignedSharedCounts(cs, i, st) ==
    AsSeq([ j \in DOMAIN cs |->
              IF j = i
              THEN [ cs[j] EXCEPT !.st = st, !.pc = NextPosition(@) ]
              ELSE [ cs[j] EXCEPT !.st.flag_counts = st.flag_counts ] ])

\* invocation i has run a block that left its locals as st: the names the
\* block assigns (claims, flag_counts, mask, group_stats, loss_95,
\* premium_25) are locals of the invocation's own frame
Assigned(cs, i, st) ==
    [ cs EXCEPT ![i].st = st, ![i].pc = NextPosition(@) ]

InitConcurrent ==
    /\ df = << >>
    /\ pc = "loaded"
    /\ claims = << >>
    /\ flag_counts = << >>
    /\ thresholds = [ loss_95_threshold    |-> NoQuantile,
                      premium_25_threshold |-> NoQuantile,
                      age_group_thresholds |-> << >> ]
    /\ summary = [ flagged |-> 0, score_dist |-> << >> ]
    /\ csv = << >>
    /\ report = [ top30 |-> << >>, score_dist |-> << >> ]
    /\ stdout = << >>
    /\ \E r1, r2 \in SeqsUpTo(CallPool, MaxCallRecs) :
         calls = << Called(MakeTable(r1)), Called(MakeTable(r2)) >>
    /\ ask = NoRequest

\* lines 53-60: the copy, the print, the tracking columns, flag_counts = {}
CallStart(i) ==
    /\ calls[i].pc = "called"
    /\ calls' = Assigned(calls, i, Start(calls[i].df))
    /\ stdout' = stdout \o ConsoleOfApplyRules(calls[i].df)
    /\ UNCHANGED <<df, pc, claims, flag_counts, thresholds, summary, csv, report, ask>>

CallRule1(i) ==
    /\ calls[i].pc = "rule1"
    /\ calls' = Assigned(calls, i, Rule1(calls[i].st))
    /\ UNCHANGED <<mainVars, ask>>

CallRule2(i) ==
    /\ calls[i].pc = "rule2"
    /\ calls' = Assigned(calls, i, Rule2(calls[i].st))
    /\ UNCHANGED <<mainVars, ask>>

CallRule3(i) ==
    /\ calls[i].pc = "rule3"
    /\ calls' = Assigned(calls, i, Rule3(calls[i].st))
    /\ UNCHANGED <<mainVars, ask>>

CallRule4(i) ==
    /\ calls[i].pc = "rule4"
    /\ calls' = Assigned(calls, i, Rule4(calls[i].st))
    /\ UNCHANGED <<mainVars, ask>>

CallRule5(i) ==
    /\ calls[i].pc = "rule5"
    /\ calls' = Assigned(calls, i, Rule5(calls[i].st))
    /\ UNCHANGED <<mainVars, ask>>

\* lines 110-120: flags cleaned, thresholds built, the three values returned
CallReturn(i) ==
    /\ calls[i].pc = "return"
    /\ calls' = [ calls EXCEPT ![i].result = Return(calls[i].st),
                               ![i].pc = "returned" ]
    /\ UNCHANGED <<mainVars, ask>>

NextConcurrent ==
    \E i \in CallIds :
        \/ CallStart(i)
        \/ CallRule1(i)
        \/ CallRule2(i)
        \/ CallRule3(i)
        \/ CallRule4(i)
        \/ CallRule5(i)
        \/ CallReturn(i)

SpecConcurrent == InitConcurrent /\ [][NextConcurrent]_vars

\* the locals an invocation on d has at position p when it runs alone
LocalsAlone(d, p) ==
    CASE p = "called" -> Start(<< >>)
      [] p = "rule1"  -> Start(d)
      [] p = "rule2"  -> Rule1(Start(d))
      [] p = "rule3"  -> Rule2(Rule1(Start(d)))
      [] p = "rule4"  -> Rule3(Rule2(Rule1(Start(d))))
      [] p = "rule5"  -> Rule4(Rule3(Rule2(Rule1(Start(d)))))
      [] OTHER        -> Rule5(Rule4(Rule3(Rule2(Rule1(Start(d))))))

---------------------------------------------------------------------------
(* data_chatbot.py: the handler of POST /ask.  A string is the sequence of *)
(* its characters, so that strip(), lower() and "in" are computed.         *)

Space == " "

\* str.strip(): leading and trailing whitespace removed
Strip(s) ==
    LET inked == { k \in DOMAIN s : s[k] # Space }
    IN  IF inked = {} THEN << >>
        ELSE SubSeq(s, CHOOSE k \in inked : \A j \in inked : k <= j,
                       CHOOSE k \in inked : \A j \in inked : j <= k)

UpperLetters ==
    << "A", "B", "C", "D", "E", "F", "G", "H", "I", "J", "K", "L", "M",
       "N", "O", "P", "Q", "R", "S", "T", "U", "V", "W", "X", "Y", "Z" >>
LowerLetters ==
    << "a", "b", "c", "d", "e", "f", "g", "h", "i", "j", "k", "l", "m",
       "n", "o", "p", "q", "r", "s", "t", "u", "v", "w", "x", "y", "z" >>

\* str.lower()
Lower(s) ==
    AsSeq([ k \in DOMAIN s |->
              IF \E u \in DOMAIN UpperLetters : UpperLetters[u] = s[k]
              THEN LowerLetters[CHOOSE u \in DOMAIN UpperLetters : UpperLetters[u] = s[k]]
              ELSE s[k] ])

\* sub in s
Contains(s, sub) ==
    \E i \in 0..(Len(s) - Len(sub)) : SubSeq(s, i + 1, i + Len(sub)) = sub

\* the literals of the handler
Google        == << "g", "o", "o", "g", "l", "e" >>
Anthropic     == << "a", "n", "t", "h", "r", "o", "p", "i", "c" >>
DefaultModel  == << "c", "l", "a", "u", "d", "e", "-", "s", "o", "n", "n", "e", "t", "-", "4", "-", "6" >>
ApiKeyInvalid == << "A", "P", "I", "_", "K", "E", "Y", "_", "I", "N", "V", "A", "L", "I", "D" >>
Invalid       == << "i", "n", "v", "a", "l", "i", "d" >>
ApiKey        == << "a", "p", "i", " ", "k", "e", "y" >>

\* a JSON string with the characters s
Str(s) == [ json |-> "string", s |-> s ]
\* a JSON value that is not a string (a number, null, a list): it has no strip
NonString == [ json |-> "number", s |-> << >> ]
\* the key is not in the body
Missing == [ json |-> "missing", s |-> << >> ]

\* body.get(name, default)
Get(body, name, default) ==
    IF body[name] = Missing THEN default ELSE body[name].s

\* the bodies sent: every field missing, a string, or not a string
Bodies ==
    [ json     : { "object" },
      question : { Missing, NonString, Str(<< >>), Str(<< Space >>), Str(<< "q" >>),
                   Str(<< Space, "q", Space >>) },
      api_key  : { Missing, NonString, Str(<< >>), Str(<< Space >>),
                   Str(<< Space, "k", Space >>) },
      model    : { Missing, NonString, Str(<< "m" >>) },
      provider : { Missing, NonString, Str(Google), Str(<< Space >> \o Google),
                   Str(Anthropic), Str(<< "x" >>) } ]

\* a JSON body that is not an object: body.get raises AttributeError
NotAnObject ==
    [ json |-> "list", question |-> Missing, api_key |-> Missing,
      model |-> Missing, provider |-> Missing ]

\* What the upstream call does.  cause tells what went wrong at the provider:
\* "none" (an answer came back), "key" (the key was rejected) or "other".
GoogleOutcomes ==
    { [ cause |-> "none",  err_str |-> << >> ],
      [ cause |-> "key",   err_str |-> << "A", "P", "I", "_", "K", "E", "Y", "_", "I", "N", "V", "A", "L", "I", "D" >> ],
      [ cause |-> "key",   err_str |-> << "A", "P", "I", " ", "k", "e", "y", " ", "e", "x", "p", "i", "r", "e", "d" >> ],
      [ cause |-> "other", err_str |-> << "I", "N", "V", "A", "L", "I", "D", "_", "A", "R", "G", "U", "M", "E", "N", "T" >> ],
      [ cause |-> "other", err_str |-> << "R", "E", "S", "O", "U", "R", "C", "E", "_", "E", "X", "H", "A", "U", "S", "T", "E", "D" >> ] }

\* the Anthropic client raises AuthenticationError for a rejected key and
\* other exceptions otherwise
AnthropicOutcomes ==
    { [ cause |-> "none",  err_str |-> << >> ],
      [ cause |-> "key",   err_str |-> << "a", "u", "t", "h", "e", "n", "t", "i", "c", "a", "t", "i", "o", "n", "_", "e", "r", "r", "o", "r" >> ],
      [ cause |-> "other", err_str |-> << "o", "v", "e", "r", "l", "o", "a", "d", "e", "d", "_", "e", "r", "r", "o", "r" >> ] }

NoOutcome == [ cause |-> "none", err_str |-> << >> ]
NoResponse == [ status |-> 0, kind |-> "none", text |-> "" ]

Response(status, kind, text) == [ status |-> status, kind |-> kind, text |-> text ]

\* the request as it arrives
Received(body, available) ==
    [ pc |-> "received", body |-> body, GOOGLE_AI_AVAILABLE |-> available,
      question |-> << >>, api_key |-> << >>, model |-> << >>, provider |-> << >>,
      called |-> << >>, outcome |-> NoOutcome, response |-> NoResponse ]

InitAsk ==
    /\ df = << >>
    /\ pc = "loaded"
    /\ claims = << >>
    /\ flag_counts = << >>
    /\ thresholds = [ loss_95_threshold    |-> NoQuantile,
                      premium_25_threshold |-> NoQuantile,
                      age_group_thresholds |-> << >> ]
    /\ summary = [ flagged |-> 0, score_dist |-> << >> ]
    /\ csv = << >>
    /\ report = [ top30 |-> << >>, score_dist |-> << >> ]
    /\ stdout = << >>
    /\ calls = << >>
    /\ \E body \in Bodies \cup { NotAnObject }, available \in BOOLEAN :
         ask = Received(body, available)

\* some field read by lines 341-344 has no strip method
Unreadable(body) ==
    \/ body = NotAnObject
    \/ \E name \in { "question", "api_key", "model", "provider" } :
         body[name] = NonString

\* lines 340-344: the four fields, defaulted and stripped.  An exception
\* here is not caught by the handler: the framework answers 500.
ReadBody ==
    /\ ask.pc = "received"
    /\ IF Unreadable(ask.body)
       THEN ask' = [ ask EXCEPT
                       !.pc = "responded",
                       !.response = Response(500, "unhandled", "Internal Server Error") ]
       ELSE ask' = [ ask EXCEPT
                       !.pc = "validate",
                       !.question = Strip(Get(ask.body, "question", << >>)),
                       !.api_key  = Strip(Get(ask.body, "api_key", << >>)),
                       !.model    = Strip(Get(ask.body, "model", DefaultModel)),
                       !.provider = Strip(Get(ask.body, "provider", Anthropic)) ]
    /\ UNCHANGED <<mainVars, calls>>

\* lines 346-349
Validate ==
    /\ ask.pc = "validate"
    /\ ask' = IF ask.api_key = << >>
              THEN [ ask EXCEPT !.pc = "responded",
                                !.response = Response(400, "error", "API key is required") ]
              ELSE IF ask.question = << >>
              THEN [ ask EXCEPT !.pc = "responded",
                                !.response = Response(400, "error", "Question is required") ]
              ELSE [ ask EXCEPT !.pc = "dispatch" ]
    /\ UNCHANGED <<mainVars, calls>>

\* lines 351-353 and 368
Dispatch ==
    /\ ask.pc = "dispatch"
    /\ ask' = IF ask.provider = Google
              THEN IF ~ask.GOOGLE_AI_AVAILABLE
                   THEN [ ask EXCEPT
                            !.pc = "responded",
                            !.response = Response(500, "error",
                               "google-genai package is not installed on the server.") ]
                   ELSE [ ask EXCEPT !.pc = "google" ]
              ELSE [ ask EXCEPT !.pc = "anthropic" ]
    /\ UNCHANGED <<mainVars, calls>>

\* lines 355-360: the client is created and called
CallGoogle ==
    /\ ask.pc = "google"
    /\ \E o \in GoogleOutcomes :
         ask' = [ ask EXCEPT
                    !.pc = "google_result",
                    !.called = @ \o << [ provider |-> "google", op |-> "Client" ],
                                       [ provider |-> "google", op |-> "generate_content" ] >>,
                    !.outcome = o ]
    /\ UNCHANGED <<mainVars, calls>>

\* line 365: the error is taken for a key error by its text
LooksLikeKeyError(err_str) ==
    \/ Contains(err_str, ApiKeyInvalid)
    \/ Contains(Lower(err_str), Invalid)
    \/ Contains(Lower(err_str), ApiKey)

\* lines 361-367
RespondGoogle ==
    /\ ask.pc = "google_result"
    /\ ask' = [ ask EXCEPT
                  !.pc = "responded",
                  !.response =
                     IF ask.outcome.cause = "none"
                     THEN Response(200, "answer", "response.text")
                     ELSE IF LooksLikeKeyError(ask.outcome.err_str)
                     THEN Response(401, "error",
                                   "Invalid Google API key. Please check and try again.")
                     ELSE Response(500, "error", "err_str") ]
    /\ UNCHANGED <<mainVars, calls>>

\* lines 371-377
CallAnthropic ==
    /\ ask.pc = "anthropic"
    /\ \E o \in AnthropicOutcomes :
         ask' = [ ask EXCEPT
                    !.pc = "anthropic_result",
                    !.called = @ \o << [ provider |-> "anthropic", op |-> "Anthropic" ],
                                       [ provider |-> "anthropic", op |-> "messages.create" ] >>,
                    !.outcome = o ]
    /\ UNCHANGED <<mainVars, calls>>

\* lines 378-383
RespondAnthropic ==
    /\ ask.pc = "anthropic_result"
    /\ ask' = [ ask EXCEPT
                  !.pc = "responded",
                  !.response =
                     IF ask.outcome.cause = "none"
                     THEN Response(200, "answer", "message.content[0].text")
                     ELSE IF ask.outcome.cause = "key"
                     THEN Response(401, "error",
                                   "Invalid API key. Please check and try again.")
                     ELSE Response(500, "error", "str(e)") ]
    /\ UNCHANGED <<mainVars, calls>>

NextAsk ==
    \/ ReadBody
    \/ Validate
    \/ Dispatch
    \/ CallGoogle
    \/ RespondGoogle
    \/ CallAnthropic
    \/ RespondAnthropic

SpecAsk == InitAsk /\ [][NextAsk]_vars

\* the field of the request is empty after trimming (a missing field is "")
EmptyAfterTrim(name) ==
    /\ ask.body # NotAnObject
    /\ ask.body[name] # NonString
    /\ Strip(Get(ask.body, name, << >>)) = << >>

\* the request names Google as its provider
NamesGoogle ==
    /\ ask.body # NotAnObject
    /\ ask.body.provider # NonString
    /\ Strip(Get(ask.body, "provider", Anthropic)) = Google

\* the providers of the calls made
ProvidersCalled == { ask.called[k].provider : k \in DOMAIN ask.called }

\* C30: an empty api_key is answered 400 'API key is required', else an
\* empty question 400 'Question is required', both without a client being
\* created or called; every other request has called exactly one provider
\* (Google iff provider is 'google') and is answered 200 with an answer, 401
\* for an invalid key, or 500 for any other failure.
C30_AskContract ==
    /\ ask.called # << >> => ~EmptyAfterTrim("api_key") /\ ~EmptyAfterTrim("question")
    /\ ask.pc = "responded" =>
         IF EmptyAfterTrim("api_key")
         THEN ask.response = Response(400, "error", "API key is required")
         ELSE IF EmptyAfterTrim("question")
         THEN ask.response = Response(400, "error", "Question is required")
         ELSE /\ ProvidersCalled = IF NamesGoogle THEN { "google" } ELSE { "anthropic" }
              /\ ask.response.status = 200 <=> ask.outcome.cause = "none"
              /\ ask.response.status = 401 <=> ask.outcome.cause = "key"
              /\ ask.response.status = 500 <=> ask.outcome.cause = "other"
              /\ ask.response.kind = "answer" <=> ask.response.status = 200

=============================================================================
